---- MODULE Spec2Model ----
(***************************************************************************)
(* A model of package util of kk (src/util/k8s.go): the option resolver    *)
(* SetOptions, the eight resource listers, the string helpers and the      *)
(* kubectl command runner.                                                 *)
(*                                                                         *)
(* A Go string is a sequence of bytes; it is modelled as a sequence of     *)
(* one-character strings, so that indexing, slicing, trimming, splitting   *)
(* and joining are computed and not assumed.                               *)
(***************************************************************************)
EXTENDS Integers, Sequences, FiniteSets, TLC

VARIABLES opt, calls, out

vars == <<opt, calls, out>>

(***************************************************************************)
(* Bounds of the model.                                                    *)
(***************************************************************************)
MaxLen == 4      \* longest input of TrimQuoteAndSpace
MaxOut == 3      \* longest captured command output
MaxArgs == 2     \* longest caller-supplied argument list
MaxPairs == 2    \* largest map given to KeysString
MaxCalls == 2    \* most list calls recorded on the cluster client

(***************************************************************************)
(* Characters and string literals.                                         *)
(***************************************************************************)
DQ == "\""
SQ == "'"
NL == "\n"

SeqsUpTo(S, n) == UNION {[1..k -> S] : k \in 0..n}

EmptyString == <<>>

\* the literal "default" of line 28
DefaultLiteral == <<"d", "e", "f", "a", "u", "l", "t">>

\* v1.NamespaceDefault, used on line 177
NamespaceDefault == <<"d", "e", "f", "a", "u", "l", "t">>

NamespaceFlag == <<"-", "-", "n", "a", "m", "e", "s", "p", "a", "c", "e", "=">>
ContextFlag == <<"-", "-", "c", "o", "n", "t", "e", "x", "t", "=">>
SelectorFlag == <<"-", "-", "s", "e", "l", "e", "c", "t", "o", "r", "=">>
Kubectl == <<"k", "u", "b", "e", "c", "t", "l">>
ErrorRunning == <<"e", "r", "r", "o", "r", " ", "r", "u", "n", "n", "i", "n", "g", " ",
                  "c", "o", "m", "m", "a", "n", "d", ":", " ">>

(***************************************************************************)
(* Library functions of package strings, as the code uses them.            *)
(***************************************************************************)
\* unicode.IsSpace restricted to the characters of the model
IsSpace(c) == c \in {" ", "\t", "\n", "\r"}

\* strings.TrimSpace: drop the leading and the trailing white space
RECURSIVE TrimLeft(_)
TrimLeft(s) ==
  IF Len(s) > 0 /\ IsSpace(s[1]) THEN TrimLeft(SubSeq(s, 2, Len(s))) ELSE s

RECURSIVE TrimRight(_)
TrimRight(s) ==
  IF Len(s) > 0 /\ IsSpace(s[Len(s)]) THEN TrimRight(SubSeq(s, 1, Len(s) - 1)) ELSE s

TrimSpace(s) == TrimRight(TrimLeft(s))

\* strings.Split(s, sep) for a one-character separator
RECURSIVE Split(_, _)
Split(s, sep) ==
  IF \A i \in 1..Len(s) : s[i] # sep
    THEN <<s>>
    ELSE LET i == CHOOSE j \in 1..Len(s) : s[j] = sep /\ \A k \in 1..(j - 1) : s[k] # sep
         IN <<SubSeq(s, 1, i - 1)>> \o Split(SubSeq(s, i + 1, Len(s)), sep)

\* strings.Join(elems, sep)
RECURSIVE Join(_, _)
Join(elems, sep) ==
  IF Len(elems) = 0 THEN <<>>
  ELSE IF Len(elems) = 1 THEN elems[1]
  ELSE elems[1] \o sep \o Join(Tail(elems), sep)

(***************************************************************************)
(* TrimQuoteAndSpace (lines 151-162).                                      *)
(***************************************************************************)
\* Faulty variant: the white space trimmed before the quotes are looked for.
TrimQuoteAndSpaceTrimFirst(input) ==
  LET t == TrimSpace(input)
  IN IF Len(t) >= 2 /\ t[1] = DQ /\ t[Len(t)] = DQ
       THEN SubSeq(t, 2, Len(t) - 1)
     ELSE IF Len(t) >= 2 /\ t[1] = SQ /\ t[Len(t)] = SQ
       THEN SubSeq(t, 2, Len(t) - 1)
     ELSE t

TrimQuoteAndSpace(input) ==
  IF Len(input) >= 2 /\ input[1] = DQ /\ input[Len(input)] = DQ
    THEN SubSeq(input, 2, Len(input) - 1)
  ELSE IF Len(input) >= 2 /\ input[1] = SQ /\ input[Len(input)] = SQ
    THEN SubSeq(input, 2, Len(input) - 1)
  ELSE TrimSpace(input)

TrimAlphabet == {"a", DQ, SQ, " ", "\t"}

TrimInputs == SeqsUpTo(TrimAlphabet, MaxLen)

Idle == out.fn = "none"

CallTrimQuoteAndSpace ==
  /\ Idle
  /\ \E input \in TrimInputs :
       out' = [fn |-> "TrimQuoteAndSpace", input |-> input,
               ret |-> TrimQuoteAndSpace(input)]
  /\ UNCHANGED <<opt, calls>>

(***************************************************************************)
(* KeysString (lines 179-185).  A Go map is a function from its keys to    *)
(* its values; `order` is the order in which range visits the keys, which  *)
(* the language leaves unspecified.                                        *)
(***************************************************************************)
\* fmt.Sprintf("%s=%s", k, v)
SprintfPair(k, v) == k \o <<"=">> \o v

\* Faulty variant: a comma written after every pair, the last one included.
KeysStringTrailingComma(m, order) ==
  LET keys == [i \in 1..Len(order) |-> SprintfPair(order[i], m[order[i]]) \o <<",">>]
  IN Join(keys, <<>>)

KeysString(m, order) ==
  LET keys == [i \in 1..Len(order) |-> SprintfPair(order[i], m[order[i]])]
  IN Join(keys, <<",">>)

Orders(S) ==
  {s \in [1..Cardinality(S) -> S] : \A i, j \in 1..Cardinality(S) : i # j => s[i] # s[j]}

MapKeys == {<<"a">>, <<"b">>, <<"a", "b">>}

MapValues == {<<>>, <<"1">>, <<"x", ",", "y">>}

Maps == UNION {[D -> MapValues] : D \in {K \in SUBSET MapKeys : Cardinality(K) <= MaxPairs}}

CallKeysString ==
  /\ Idle
  /\ \E m \in Maps : \E order \in Orders(DOMAIN m) :
       out' = [fn |-> "KeysString", m |-> m, ret |-> KeysString(m, order)]
  /\ UNCHANGED <<opt, calls>>

(***************************************************************************)
(* K8sCommandArgs (lines 206-217).                                         *)
(***************************************************************************)
\* fmt.Sprintf("--flag=%v", value) for a string value
SprintfFlag(flag, value) == flag \o value

\* Faulty variant: a flag appended for an empty namespace too.
K8sCommandArgsAlwaysNamespace(args, namespace, context, labels) ==
  LET a1 == Append(args, SprintfFlag(NamespaceFlag, namespace))
      a2 == IF context # EmptyString
              THEN Append(a1, SprintfFlag(ContextFlag, context)) ELSE a1
      a3 == IF labels # EmptyString
              THEN Append(a2, SprintfFlag(SelectorFlag, labels)) ELSE a2
  IN a3

K8sCommandArgs(args, namespace, context, labels) ==
  LET a1 == IF namespace # EmptyString
              THEN Append(args, SprintfFlag(NamespaceFlag, namespace)) ELSE args
      a2 == IF context # EmptyString
              THEN Append(a1, SprintfFlag(ContextFlag, context)) ELSE a1
      a3 == IF labels # EmptyString
              THEN Append(a2, SprintfFlag(SelectorFlag, labels)) ELSE a2
  IN a3

Tokens == {<<"g", "e", "t">>, <<"p", "o", "d", "s">>}

ArgLists == SeqsUpTo(Tokens, MaxArgs)

NamespaceInputs == {<<>>, <<"n", "s", "1">>}

ContextInputs == {<<>>, <<"c", "t", "x", "1">>}

LabelInputs == {<<>>, <<"a", "p", "p", "=", "x">>}

CallK8sCommandArgs ==
  /\ Idle
  /\ \E args \in ArgLists, namespace \in NamespaceInputs,
        context \in ContextInputs, labels \in LabelInputs :
       out' = [fn |-> "K8sCommandArgs", args |-> args, namespace |-> namespace,
               context |-> context, labels |-> labels,
               ret |-> K8sCommandArgs(args, namespace, context, labels)]
  /\ UNCHANGED <<opt, calls>>

(***************************************************************************)
(* RunCommand (lines 187-198).  cmdOut and err are what                    *)
(* cmd.CombinedOutput() returns: the captured output and whether the       *)
(* command failed.  `printed` is the text written to standard output.      *)
(***************************************************************************)
\* the %v rendering of a []string: [a b c]
FormatSlice(args) == <<"[">> \o Join(args, <<" ">>) \o <<"]">>

\* Faulty variant: the captured output dropped when the command failed.
RunCommandNilOnError(name, args, cmdOut, err) ==
  [printed |-> IF err
                 THEN ErrorRunning \o name \o <<" ">> \o FormatSlice(args) \o <<NL>>
                 ELSE EmptyString,
   argv |-> <<name>> \o args,
   ret |-> IF err THEN <<>> ELSE Split(cmdOut, NL)]

RunCommand(name, args, cmdOut, err) ==
  [printed |-> IF err
                 THEN ErrorRunning \o name \o <<" ">> \o FormatSlice(args) \o <<NL>>
                 ELSE EmptyString,
   argv |-> <<name>> \o args,
   ret |-> Split(cmdOut, NL)]

CmdOutputs == SeqsUpTo({"a", NL}, MaxOut)

CallRunCommand ==
  /\ Idle
  /\ \E args \in ArgLists, cmdOut \in CmdOutputs, err \in BOOLEAN :
       LET r == RunCommand(Kubectl, args, cmdOut, err)
       IN out' = [fn |-> "RunCommand", name |-> Kubectl, args |-> args,
                  cmdOut |-> cmdOut, err |-> err,
                  printed |-> r.printed, argv |-> r.argv, ret |-> r.ret]
  /\ UNCHANGED <<opt, calls>>

(***************************************************************************)
(* RawK8sOutput (lines 200-204).                                           *)
(***************************************************************************)
RawK8sOutput(namespace, context, labels, args, cmdOut, err) ==
  LET cmdArgs == K8sCommandArgs(args, namespace, context, labels)
  IN RunCommand(Kubectl, cmdArgs, cmdOut, err)

CallRawK8sOutput ==
  /\ Idle
  /\ \E args \in ArgLists, namespace \in NamespaceInputs,
        context \in ContextInputs, labels \in LabelInputs,
        cmdOut \in CmdOutputs, err \in BOOLEAN :
       LET r == RawK8sOutput(namespace, context, labels, args, cmdOut, err)
       IN out' = [fn |-> "RawK8sOutput", args |-> args, namespace |-> namespace,
                  context |-> context, labels |-> labels,
                  cmdOut |-> cmdOut, err |-> err,
                  printed |-> r.printed, argv |-> r.argv, ret |-> r.ret]
  /\ UNCHANGED <<opt, calls>>

ZeroOptions ==
  [Namespace |-> <<>>, AllNamespaces |-> FALSE, Selector |-> <<>>, FieldSelector |-> <<>>]

InitUtil ==
  /\ opt = ZeroOptions
  /\ calls = <<>>
  /\ out = [fn |-> "none"]

NextUtil ==
  \/ CallTrimQuoteAndSpace
  \/ CallKeysString
  \/ CallK8sCommandArgs
  \/ CallRunCommand
  \/ CallRawK8sOutput

SpecUtil == InitUtil /\ [][NextUtil]_vars

(***************************************************************************)
(* SetOptions (lines 26-54).  cfg is what client.ClientConfig().Namespace()*)
(* returns when it is called: a namespace and whether it failed.  The      *)
(* result records the two return values, the SearchOptions as the call     *)
(* leaves it, the number of kubeconfig lookups made and the debug messages *)
(* logged.                                                                 *)
(***************************************************************************)
\* Faulty variants of SetOptions, used to show that the properties below
\* depend on the code: the explicit namespace tested before AllNamespaces,
SetOptionsNamespaceFirst(o, cfg) ==
  [namespace |-> IF Len(o.Namespace) > 0 THEN o.Namespace
                 ELSE IF o.AllNamespaces THEN EmptyString
                 ELSE IF cfg.err THEN DefaultLiteral ELSE cfg.ns,
   listOptions |-> [LabelSelector |-> o.Selector, FieldSelector |-> o.FieldSelector],
   opt |-> o,
   lookups |-> IF ~o.AllNamespaces /\ ~(Len(o.Namespace) > 0) THEN 1 ELSE 0,
   log |-> IF ~o.AllNamespaces /\ ~(Len(o.Namespace) > 0) /\ cfg.err
             THEN <<"Failed to resolve namespace">> ELSE <<>>]

\* the kubeconfig namespace looked up first and preferred to the explicit one,
SetOptionsLookupFirst(o, cfg) ==
  [namespace |-> IF o.AllNamespaces THEN EmptyString
                 ELSE IF ~cfg.err THEN cfg.ns
                 ELSE IF Len(o.Namespace) > 0 THEN o.Namespace
                 ELSE DefaultLiteral,
   listOptions |-> [LabelSelector |-> o.Selector, FieldSelector |-> o.FieldSelector],
   opt |-> o,
   lookups |-> IF o.AllNamespaces THEN 0 ELSE 1,
   log |-> IF ~o.AllNamespaces /\ cfg.err
             THEN <<"Failed to resolve namespace">> ELSE <<>>]

\* the namespace of a failed lookup used all the same,
SetOptionsErrIgnored(o, cfg) ==
  [namespace |-> IF o.AllNamespaces THEN EmptyString
                 ELSE IF Len(o.Namespace) > 0 THEN o.Namespace
                 ELSE cfg.ns,
   listOptions |-> [LabelSelector |-> o.Selector, FieldSelector |-> o.FieldSelector],
   opt |-> o,
   lookups |-> IF ~o.AllNamespaces /\ ~(Len(o.Namespace) > 0) THEN 1 ELSE 0,
   log |-> IF ~o.AllNamespaces /\ ~(Len(o.Namespace) > 0) /\ cfg.err
             THEN <<"Failed to resolve namespace">> ELSE <<>>]

\* and the label selector copied into both fields of the list options.
SetOptionsSelectorTwice(o, cfg) ==
  [namespace |-> IF o.AllNamespaces THEN EmptyString
                 ELSE IF Len(o.Namespace) > 0 THEN o.Namespace
                 ELSE IF cfg.err THEN DefaultLiteral ELSE cfg.ns,
   listOptions |-> [LabelSelector |-> o.Selector, FieldSelector |-> o.Selector],
   opt |-> o,
   lookups |-> IF ~o.AllNamespaces /\ ~(Len(o.Namespace) > 0) THEN 1 ELSE 0,
   log |-> IF ~o.AllNamespaces /\ ~(Len(o.Namespace) > 0) /\ cfg.err
             THEN <<"Failed to resolve namespace">> ELSE <<>>]

SetOptions(o, cfg) ==
  LET lookup == ~o.AllNamespaces /\ ~(Len(o.Namespace) > 0)
      namespace ==
        IF o.AllNamespaces THEN EmptyString
        ELSE IF Len(o.Namespace) > 0 THEN o.Namespace
        ELSE IF cfg.err THEN DefaultLiteral
        ELSE cfg.ns
      listOptions == [LabelSelector |-> o.Selector, FieldSelector |-> o.FieldSelector]
  IN [namespace |-> namespace,
      listOptions |-> listOptions,
      opt |-> o,
      lookups |-> IF lookup THEN 1 ELSE 0,
      log |-> IF lookup /\ cfg.err THEN <<"Failed to resolve namespace">> ELSE <<>>]

(***************************************************************************)
(* GetDefaultNamespace (lines 169-178).                                    *)
(***************************************************************************)
GetDefaultNamespace(cfg) ==
  IF ~cfg.err THEN cfg.ns ELSE NamespaceDefault

(***************************************************************************)
(* The List call of the cluster client: nsArgs holds the namespace the     *)
(* resource interface was obtained with (none for the cluster-scoped       *)
(* Nodes()), o the list options; resp is the (list, err) pair the client   *)
(* answers with.                                                           *)
(***************************************************************************)
ClientList(api, resource, nsArgs, o, resp) ==
  [call |-> [api |-> api, resource |-> resource, nsArgs |-> nsArgs, opts |-> o],
   list |-> resp.list,
   err |-> resp.err]

\* Faulty variant: a nil list returned whenever the List call failed.
DaemonsetListNilOnError(o, cfg, resp) ==
  LET so == SetOptions(o, cfg)
      r == ClientList("AppsV1", "DaemonSets", <<so.namespace>>, so.listOptions, resp)
  IN [opt |-> so.opt,
      calls |-> <<r.call>>,
      lookups |-> so.lookups,
      log |-> so.log \o (IF r.err THEN <<"Unable to get DaemonSet List">> ELSE <<>>),
      ret |-> IF r.err THEN "nil" ELSE r.list]

DaemonsetList(o, cfg, resp) ==
  LET so == SetOptions(o, cfg)
      r == ClientList("AppsV1", "DaemonSets", <<so.namespace>>, so.listOptions, resp)
  IN [opt |-> so.opt,
      calls |-> <<r.call>>,
      lookups |-> so.lookups,
      log |-> so.log \o (IF r.err THEN <<"Unable to get DaemonSet List">> ELSE <<>>),
      ret |-> r.list]

DeploymentList(o, cfg, resp) ==
  LET so == SetOptions(o, cfg)
      r == ClientList("AppsV1", "Deployments", <<so.namespace>>, so.listOptions, resp)
  IN [opt |-> so.opt,
      calls |-> <<r.call>>,
      lookups |-> so.lookups,
      log |-> so.log \o (IF r.err THEN <<"Unable to get Deployment List">> ELSE <<>>),
      ret |-> r.list]

PodList(o, cfg, resp) ==
  LET so == SetOptions(o, cfg)
      r == ClientList("CoreV1", "Pods", <<so.namespace>>, so.listOptions, resp)
  IN [opt |-> so.opt,
      calls |-> <<r.call>>,
      lookups |-> so.lookups,
      log |-> so.log \o (IF r.err THEN <<"Unable to get Pod List">> ELSE <<>>),
      ret |-> r.list]

\* Faulty variant: nodes listed in the resolved namespace.
NodeListNamespaced(o, cfg, resp) ==
  LET so == SetOptions(o, cfg)
      r == ClientList("CoreV1", "Nodes", <<so.namespace>>, so.listOptions, resp)
  IN [opt |-> so.opt,
      calls |-> <<r.call>>,
      lookups |-> so.lookups,
      log |-> so.log \o (IF r.err THEN <<"Unable to get Node List">> ELSE <<>>),
      ret |-> r.list]

NodeList(o, cfg, resp) ==
  LET so == SetOptions(o, cfg)
      r == ClientList("CoreV1", "Nodes", <<>>, so.listOptions, resp)
  IN [opt |-> so.opt,
      calls |-> <<r.call>>,
      lookups |-> so.lookups,
      log |-> so.log \o (IF r.err THEN <<"Unable to get Node List">> ELSE <<>>),
      ret |-> r.list]

ConfigMapList(o, cfg, resp) ==
  LET so == SetOptions(o, cfg)
      r == ClientList("CoreV1", "ConfigMaps", <<so.namespace>>, so.listOptions, resp)
  IN [opt |-> so.opt,
      calls |-> <<r.call>>,
      lookups |-> so.lookups,
      log |-> so.log \o (IF r.err THEN <<"Unable to get ConfigMap List">> ELSE <<>>),
      ret |-> r.list]

SecretList(o, cfg, resp) ==
  LET so == SetOptions(o, cfg)
      r == ClientList("CoreV1", "Secrets", <<so.namespace>>, so.listOptions, resp)
  IN [opt |-> so.opt,
      calls |-> <<r.call>>,
      lookups |-> so.lookups,
      log |-> so.log \o (IF r.err THEN <<"Unable to get Secret List">> ELSE <<>>),
      ret |-> r.list]

StatefulSetList(o, cfg, resp) ==
  LET so == SetOptions(o, cfg)
      r == ClientList("AppsV1", "StatefulSets", <<so.namespace>>, so.listOptions, resp)
  IN [opt |-> so.opt,
      calls |-> <<r.call>>,
      lookups |-> so.lookups,
      log |-> so.log \o (IF r.err THEN <<"Unable to get .StatefulSet List">> ELSE <<>>),
      ret |-> r.list]

ServiceList(o, cfg, resp) ==
  LET so == SetOptions(o, cfg)
      r == ClientList("CoreV1", "Services", <<so.namespace>>, so.listOptions, resp)
  IN [opt |-> so.opt,
      calls |-> <<r.call>>,
      lookups |-> so.lookups,
      log |-> so.log \o (IF r.err THEN <<"Unable to get .Services List">> ELSE <<>>),
      ret |-> r.list]

(***************************************************************************)
(* The environment of the resolver and the listers.                        *)
(***************************************************************************)
KubeconfigNs == <<"c", "f", "g">>

\* outcomes of the kubeconfig namespace lookup
Lookups == {[ns |-> KubeconfigNs, err |-> FALSE],
            [ns |-> EmptyString, err |-> TRUE],
            [ns |-> KubeconfigNs, err |-> TRUE]}

\* answers of the cluster client to a List call
Responses == [list : {"nil", "items"}, err : BOOLEAN]

SearchOptions ==
  [Namespace : {EmptyString, <<"n", "s", "1">>},
   AllNamespaces : BOOLEAN,
   Selector : {EmptyString, <<"a", "p", "p", "=", "x">>},
   FieldSelector : {EmptyString, <<"f", "=", "y">>}]

Invoke(fn, cfg, resp, r) ==
  /\ Len(calls) + Len(r.calls) <= MaxCalls
  /\ opt' = r.opt
  /\ calls' = calls \o r.calls
  /\ out' = [fn |-> fn, opt |-> opt, cfg |-> cfg, resp |-> resp,
             lookups |-> r.lookups, log |-> r.log, ret |-> r.ret]

CallSetOptions ==
  \E cfg \in Lookups :
    LET so == SetOptions(opt, cfg)
    IN Invoke("SetOptions", cfg, [list |-> "nil", err |-> FALSE],
              [opt |-> so.opt, calls |-> <<>>, lookups |-> so.lookups, log |-> so.log,
               ret |-> [namespace |-> so.namespace, listOptions |-> so.listOptions]])

CallGetDefaultNamespace ==
  \E cfg \in Lookups :
    Invoke("GetDefaultNamespace", cfg, [list |-> "nil", err |-> FALSE],
           [opt |-> opt, calls |-> <<>>, lookups |-> 1, log |-> <<>>,
            ret |-> GetDefaultNamespace(cfg)])

CallDaemonsetList ==
  \E cfg \in Lookups, resp \in Responses :
    Invoke("DaemonsetList", cfg, resp, DaemonsetList(opt, cfg, resp))

CallDeploymentList ==
  \E cfg \in Lookups, resp \in Responses :
    Invoke("DeploymentList", cfg, resp, DeploymentList(opt, cfg, resp))

CallPodList ==
  \E cfg \in Lookups, resp \in Responses :
    Invoke("PodList", cfg, resp, PodList(opt, cfg, resp))

CallNodeList ==
  \E cfg \in Lookups, resp \in Responses :
    Invoke("NodeList", cfg, resp, NodeList(opt, cfg, resp))

CallConfigMapList ==
  \E cfg \in Lookups, resp \in Responses :
    Invoke("ConfigMapList", cfg, resp, ConfigMapList(opt, cfg, resp))

CallSecretList ==
  \E cfg \in Lookups, resp \in Responses :
    Invoke("SecretList", cfg, resp, SecretList(opt, cfg, resp))

CallStatefulSetList ==
  \E cfg \in Lookups, resp \in Responses :
    Invoke("StatefulSetList", cfg, resp, StatefulSetList(opt, cfg, resp))

CallServiceList ==
  \E cfg \in Lookups, resp \in Responses :
    Invoke("ServiceList", cfg, resp, ServiceList(opt, cfg, resp))

Init ==
  /\ opt \in SearchOptions
  /\ calls = <<>>
  /\ out = [fn |-> "none"]

Next ==
  \/ CallSetOptions
  \/ CallGetDefaultNamespace
  \/ CallDaemonsetList
  \/ CallDeploymentList
  \/ CallPodList
  \/ CallNodeList
  \/ CallConfigMapList
  \/ CallSecretList
  \/ CallStatefulSetList
  \/ CallServiceList

Spec == Init /\ [][Next]_vars

(***************************************************************************)
(* Properties of the option resolver and of the listers (Spec).            *)
(***************************************************************************)
ListerNames ==
  {"DaemonsetList", "DeploymentList", "PodList", "NodeList",
   "ConfigMapList", "SecretList", "StatefulSetList", "ServiceList"}

\* the List endpoint each lister is meant to call
EndpointOf ==
  [DaemonsetList |-> <<"AppsV1", "DaemonSets">>,
   DeploymentList |-> <<"AppsV1", "Deployments">>,
   PodList |-> <<"CoreV1", "Pods">>,
   NodeList |-> <<"CoreV1", "Nodes">>,
   ConfigMapList |-> <<"CoreV1", "ConfigMaps">>,
   SecretList |-> <<"CoreV1", "Secrets">>,
   StatefulSetList |-> <<"AppsV1", "StatefulSets">>,
   ServiceList |-> <<"CoreV1", "Services">>]

\* C1: whenever SetOptions is given options with AllNamespaces = TRUE it
\* returns the empty namespace, whatever the explicit Namespace and whatever
\* the kubeconfig lookup would answer.
C1_AllNamespacesEmpty ==
  (out.fn = "SetOptions" /\ out.opt.AllNamespaces) => out.ret.namespace = <<>>

C1_Witness ==
  /\ out.fn = "SetOptions"
  /\ out.opt.AllNamespaces
  /\ out.opt.Namespace = <<"n", "s", "1">>
  /\ out.cfg = [ns |-> <<"c", "f", "g">>, err |-> FALSE]
  /\ out.ret.namespace = <<>>

\* C2: with AllNamespaces = FALSE and a non-empty Namespace, SetOptions
\* returns exactly that Namespace, makes no kubeconfig lookup, and so returns
\* the same for every outcome the lookup could have.
C2_ExplicitNamespaceVerbatim ==
  (out.fn = "SetOptions" /\ ~out.opt.AllNamespaces /\ out.opt.Namespace # <<>>)
    => (out.ret.namespace = out.opt.Namespace /\ out.lookups = 0)

C2_Witness ==
  /\ out.fn = "SetOptions"
  /\ ~out.opt.AllNamespaces
  /\ out.opt.Namespace = <<"n", "s", "1">>
  /\ out.cfg = [ns |-> <<"c", "f", "g">>, err |-> FALSE]
  /\ out.ret.namespace = <<"n", "s", "1">>

\* C3: with AllNamespaces = FALSE and an empty Namespace, SetOptions returns
\* the kubeconfig namespace when the lookup succeeds and "default" when it
\* fails, and what it returns is just the namespace and the list options (no
\* error value); GetDefaultNamespace returns the kubeconfig namespace on
\* success and "default" on failure.
C3_FallbackNamespace ==
  /\ (out.fn = "SetOptions" /\ ~out.opt.AllNamespaces /\ out.opt.Namespace = <<>>)
       => /\ out.ret.namespace =
               IF out.cfg.err THEN <<"d", "e", "f", "a", "u", "l", "t">> ELSE out.cfg.ns
          /\ DOMAIN out.ret = {"namespace", "listOptions"}
          /\ out.lookups = 1
  /\ out.fn = "GetDefaultNamespace"
       => out.ret = IF out.cfg.err THEN <<"d", "e", "f", "a", "u", "l", "t">> ELSE out.cfg.ns

C3_Witness ==
  /\ out.fn = "SetOptions"
  /\ ~out.opt.AllNamespaces
  /\ out.opt.Namespace = <<>>
  /\ out.cfg = [ns |-> <<"c", "f", "g">>, err |-> TRUE]
  /\ out.ret.namespace = <<"d", "e", "f", "a", "u", "l", "t">>

\* C6: a lister whose List call failed returns exactly the list value the
\* client returned with the error, nil or not, in every reachable state, that
\* is after every sequence of earlier lister calls.
C6_ListerReturnsClientResult ==
  (out.fn \in ListerNames /\ out.resp.err) => out.ret = out.resp.list

C6_Witness ==
  /\ out.fn \in ListerNames
  /\ Len(calls) = 2
  /\ out.resp = [list |-> "nil", err |-> TRUE]
  /\ out.ret = "nil"

\* C9: every step of a lister adds exactly one call to the calls made on the
\* cluster client, to the List endpoint of its own resource kind, with the
\* list options SetOptions returned; a namespaced lister passes the namespace
\* SetOptions resolved, NodeList passes no namespace; the options are resolved
\* once (at most one kubeconfig lookup, as many as one SetOptions makes).
C9_OneListCallPerLister ==
  [][out'.fn \in ListerNames =>
       LET so == SetOptions(out'.opt, out'.cfg)
           c == calls'[Len(calls')]
       IN /\ Len(calls') = Len(calls) + 1
          /\ SubSeq(calls', 1, Len(calls)) = calls
          /\ <<c.api, c.resource>> = EndpointOf[out'.fn]
          /\ c.opts = so.listOptions
          /\ c.nsArgs = IF out'.fn = "NodeList" THEN <<>> ELSE <<so.namespace>>
          /\ out'.lookups = so.lookups]_vars

C9_Witness ==
  /\ out.fn = "NodeList"
  /\ out.opt.Namespace = <<"n", "s", "1">>
  /\ ~out.opt.AllNamespaces
  /\ Len(calls) = 2
  /\ calls[1].resource = "Pods"
  /\ calls[1].nsArgs = << <<"n", "s", "1">> >>
  /\ calls[2].resource = "Nodes"
  /\ calls[2].nsArgs = <<>>

\* C10: in every branch of the namespace resolution the list options
\* SetOptions returns carry the caller's label selector and field selector
\* unchanged, and the SearchOptions are the same after the call as before.
C10_SelectorsCarried ==
  out.fn = "SetOptions"
    => /\ out.ret.listOptions.LabelSelector = out.opt.Selector
       /\ out.ret.listOptions.FieldSelector = out.opt.FieldSelector
       /\ opt = out.opt

C10_Witness ==
  /\ out.fn = "SetOptions"
  /\ ~out.opt.AllNamespaces
  /\ out.opt.Namespace = <<>>
  /\ out.cfg.err
  /\ out.opt.Selector = <<"a", "p", "p", "=", "x">>
  /\ out.opt.FieldSelector = <<"f", "=", "y">>
  /\ out.ret.listOptions =
       [LabelSelector |-> <<"a", "p", "p", "=", "x">>, FieldSelector |-> <<"f", "=", "y">>]

(***************************************************************************)
(* Properties of the helpers and of the command runner (SpecUtil).         *)
(***************************************************************************)
Quoted(s) ==
  /\ Len(s) >= 2
  /\ \/ s[1] = "\"" /\ s[Len(s)] = "\""
     \/ s[1] = "'" /\ s[Len(s)] = "'"

AllSpace(s) == \A i \in 1..Len(s) : s[i] \in {" ", "\t", "\n", "\r"}

\* t is s without its leading and trailing white space, nothing else changed
IsTrimOf(t, s) ==
  /\ \E i \in 0..Len(s) :
       /\ i + Len(t) <= Len(s)
       /\ SubSeq(s, i + 1, i + Len(t)) = t
       /\ AllSpace(SubSeq(s, 1, i))
       /\ AllSpace(SubSeq(s, i + Len(t) + 1, Len(s)))
  /\ Len(t) > 0 => (~AllSpace(<<t[1]>>) /\ ~AllSpace(<<t[Len(t)]>>))

\* C5: for an input of length at least 2 that starts and ends with the same
\* quote character (both double or both single) TrimQuoteAndSpace returns the
\* input without its first and last characters, the inside verbatim; for
\* every other input it returns the input without its leading and trailing
\* white space and otherwise unchanged.
C5_TrimQuoteAndSpace ==
  out.fn = "TrimQuoteAndSpace"
    => IF Quoted(out.input)
         THEN <<out.input[1]>> \o out.ret \o <<out.input[Len(out.input)]>> = out.input
         ELSE IsTrimOf(out.ret, out.input)

C5_Witness ==
  /\ out.fn = "TrimQuoteAndSpace"
  /\ out.input = <<"\"", " ", "'", "\"">>
  /\ out.ret = <<" ", "'">>

\* the bag of the elements of a sequence, as a function to their counts
CountIn(seq, e) == Cardinality({i \in 1..Len(seq) : seq[i] = e})

NoComma(s) == \A i \in 1..Len(s) : s[i] # ","

\* C8: KeysString returns the "key=value" entries of the pairs of the map,
\* one for each pair and no other, joined by commas in some order: the empty
\* string for the empty map, "k=v" alone for a one-pair map, and when no key
\* or value holds a comma the comma-separated pieces of the result are
\* exactly the entries, each once.
C8_KeysString ==
  out.fn = "KeysString"
    => LET m == out.m
           entry(k) == k \o <<"=">> \o m[k]
           n == Cardinality(DOMAIN m)
       IN /\ n = 0 => out.ret = <<>>
          /\ n = 1 => \A k \in DOMAIN m : out.ret = entry(k)
          /\ \E p \in Orders(DOMAIN m) :
               out.ret = Join([i \in 1..n |-> entry(p[i])], <<",">>)
          /\ (n > 0 /\ \A k \in DOMAIN m : NoComma(k) /\ NoComma(m[k]))
               => LET pieces == Split(out.ret, ",")
                  IN /\ Len(pieces) = n
                     /\ \A k \in DOMAIN m : CountIn(pieces, entry(k)) = 1

C8_Witness ==
  /\ out.fn = "KeysString"
  /\ DOMAIN out.m = {<<"a">>, <<"b">>}
  /\ out.m[<<"a">>] = <<"1">>
  /\ out.m[<<"b">>] = <<>>
  /\ out.ret = <<"b", "=", ",", "a", "=", "1">>

\* res is args followed by the flags of the non-empty inputs, in the order
\* namespace, context, selector
IsCommandArgs(res, args, namespace, context, labels) ==
  LET n == Len(args)
      value == <<namespace, context, labels>>
      flag == << <<"-", "-", "n", "a", "m", "e", "s", "p", "a", "c", "e", "=">>,
                 <<"-", "-", "c", "o", "n", "t", "e", "x", "t", "=">>,
                 <<"-", "-", "s", "e", "l", "e", "c", "t", "o", "r", "=">> >>
      present(i) == Cardinality({j \in 1..i : value[j] # <<>>})
  IN /\ Len(res) = n + present(3)
     /\ \A i \in 1..n : res[i] = args[i]
     /\ \A i \in 1..3 : value[i] # <<>> => res[n + present(i)] = flag[i] \o value[i]

\* C4: K8sCommandArgs returns the base arguments unchanged and in order,
\* followed by --namespace=, --context= and --selector= flags in that order,
\* each present exactly when its input is non-empty, so that the length is
\* the base length plus the number of non-empty inputs; RawK8sOutput runs
\* kubectl with that argument list.
C4_K8sCommandArgs ==
  /\ out.fn = "K8sCommandArgs"
       => IsCommandArgs(out.ret, out.args, out.namespace, out.context, out.labels)
  /\ out.fn = "RawK8sOutput"
       => /\ Head(out.argv) = <<"k", "u", "b", "e", "c", "t", "l">>
          /\ IsCommandArgs(Tail(out.argv), out.args, out.namespace, out.context, out.labels)

C4_Witness ==
  /\ out.fn = "K8sCommandArgs"
  /\ out.args = << <<"g", "e", "t">>, <<"p", "o", "d", "s">> >>
  /\ out.context = <<>>
  /\ out.ret = << <<"g", "e", "t">>, <<"p", "o", "d", "s">>,
                  <<"-", "-", "n", "a", "m", "e", "s", "p", "a", "c", "e", "=", "n", "s", "1">>,
                  <<"-", "-", "s", "e", "l", "e", "c", "t", "o", "r", "=", "a", "p", "p", "=", "x">> >>

\* C7: RunCommand returns the captured output split on newline whether the
\* command succeeded or failed: the lines hold no newline, there is one more
\* line than newlines in the output, so at least one, and joined by newline
\* they give the captured output back; when the command failed exactly one
\* diagnostic line has been written to standard output.
C7_RunCommand ==
  out.fn \in {"RunCommand", "RawK8sOutput"}
    => /\ Len(out.ret) = 1 + Cardinality({i \in 1..Len(out.cmdOut) : out.cmdOut[i] = "\n"})
       /\ Len(out.ret) >= 1
       /\ \A i \in 1..Len(out.ret) : \A j \in 1..Len(out.ret[i]) : out.ret[i][j] # "\n"
       /\ Join(out.ret, <<"\n">>) = out.cmdOut
       /\ out.err => /\ Len(out.printed) > 0
                     /\ \A i \in 1..Len(out.printed) :
                          out.printed[i] = "\n" <=> i = Len(out.printed)

C7_Witness ==
  /\ out.fn = "RunCommand"
  /\ out.err
  /\ out.cmdOut = <<"a", "\n">>
  /\ out.ret = << <<"a">>, <<>> >>
  /\ Len(out.printed) > 0

====
